---- MODULE Spec2Model ----
(***************************************************************************)
(* A model of the techworld web application (my-project/app.py) and its    *)
(* admin command line (my-project/manage_admin.py): the users, notes and   *)
(* reactions tables of the shared SQLite store, the session cookie of each *)
(* client, and every request handler as the sequence of SQL statements it  *)
(* issues.  A SELECT is one step (python's sqlite3 runs it in autocommit   *)
(* mode: the statement is reset once its rows are fetched, so no snapshot  *)
(* is held), and an INSERT/UPDATE/DELETE with the commit that follows it   *)
(* is one step (SQLite admits one writer at a time and checks UNIQUE while *)
(* it holds the write lock).                                               *)
(***************************************************************************)
EXTENDS Naturals, Sequences, FiniteSets, Bags, TLC

VARIABLES
    users,          \* table users: id -> [username, email, password, is_admin]
    nextUserId,     \* AUTOINCREMENT counter of users
    notes,          \* table notes: id -> [user_id, parent_note_id, content, created_at]
    nextNoteId,     \* AUTOINCREMENT counter of notes
    reactions,      \* table reactions: a bag of [note_id, user_id, emoji] rows
    adminEnv,       \* os.environ ADMIN_USER ("" when unset)
    session,        \* per client: session['user_id'] (0 when absent)
    pc,             \* per client: the statement its request is at
    req,            \* per client: the request being served
    found,          \* per client: what the handler's last existence SELECT returned
    result,         \* per client: how the request ended
    atBegin,        \* history: whether the reaction was there when the react request began
    now,            \* the store's clock, CURRENT_TIMESTAMP, in whole seconds
    noteCap,        \* how many notes the specification lets the board grow to
    view,           \* per client: the listing GET /notes has rendered
    locked,         \* the store's write lock is held by a connection a failed request left open
    boot,           \* init_db's bootstrap: the statement it is at
    cli             \* manage_admin.py create: the statement it is at, the row it selected
vars == <<users, nextUserId, notes, nextNoteId, reactions, adminEnv,
          session, pc, req, found, result, atBegin, now, noteCap, view,
          locked, boot, cli>>

\* ------------------------------------------------------------------ bounds

MaxUsers == 3
MaxNotes == 2
MaxThreadNotes == 3
MaxTime == 1

\* ------------------------------------------------------- program constants

MinPassword == 6
MinContent == 1
MaxContent == 500

Clients == {"c1", "c2"}
Names == {"root", "alice", "bob"}
PinnedName == "root"
CliNames == {"root"}
RegEmails == {"alice@x.io", "bob@x.io"}
Emojis == {"up"}
UserIds == 1..MaxUsers
NoteIds == 1..MaxNotes
\* A content as the forms see it: its length, and whether it is all whitespace.
NoContent == [len |-> 0, blank |-> TRUE]
Contents == {NoContent,
             [len |-> MinContent, blank |-> TRUE],
             [len |-> MinContent, blank |-> FALSE],
             [len |-> MaxContent + 1, blank |-> FALSE]}

\* manage_admin.py is not running.
NoCli == [pc |-> "idle", id |-> 0, name |-> ""]

\* No listing rendered.
NoView == [top |-> <<>>, replies |-> <<>>]

NoReq == [kind |-> "", username |-> "", email |-> "", password |-> "",
          user_id |-> 0, action |-> "", note_id |-> 0, emoji |-> "", content |-> NoContent]

\* ----------------------------------------------------------- SQL helpers

\* SELECT ... FROM users WHERE id = ?
UserById(id) == IF id \in DOMAIN users THEN {id} ELSE {}

\* SELECT id FROM users WHERE username = ?
UserByName(name) == {i \in DOMAIN users : users[i].username = name}

\* The UNIQUE columns of users: an INSERT or UPDATE leaving two rows with one
\* username or one email raises sqlite3.IntegrityError.
UsersUnique(tbl) ==
    \A i, j \in DOMAIN tbl :
        i # j => tbl[i].username # tbl[j].username /\ tbl[i].email # tbl[j].email

\* f'{username}@local'
LocalEmail(name) == name \o "@local"

\* INSERT INTO users (...) VALUES (...): the table with the row added
InsertUser(row) == [i \in DOMAIN users \cup {nextUserId} |->
                        IF i \in DOMAIN users THEN users[i] ELSE row]

\* DELETE FROM users WHERE id = ?
DeleteUser(id) == [i \in DOMAIN users \ {id} |-> users[i]]

\* The superadmin designation: is_admin == 2 and, if ADMIN_USER is configured,
\* the username equal to it.
IsSuperadmin(id) ==
    /\ id \in DOMAIN users
    /\ users[id].is_admin = 2
    /\ (adminEnv = "" \/ users[id].username = adminEnv)

AllIdle == \A q \in Clients : pc[q] = "idle"

\* A request ends: its outcome is recorded and shown to the client.
End(p, r) ==
    /\ pc' = [pc EXCEPT ![p] = "done"]
    /\ result' = [result EXCEPT ![p] = r]

Goto(p, label) ==
    /\ pc' = [pc EXCEPT ![p] = label]
    /\ UNCHANGED result

Begin(p, r) ==
    /\ pc[p] = "idle"
    /\ req' = [req EXCEPT ![p] = r]

UsersTables == <<users, nextUserId>>
NotesTables == <<notes, nextNoteId, reactions>>
EnvVars == <<locked, boot, cli>>

\* --------------------------------------------------------------- register

\* POST /register: the form's validation (of which the password's minimum
\* length is modelled), then the pre-flight lookup of the username or the email.
Register(p) ==
    \E u \in Names, e \in RegEmails, pw \in {"short", "secret1"} :
        /\ nextUserId <= MaxUsers
        /\ Begin(p, [NoReq EXCEPT !.kind = "register", !.username = u,
                                  !.email = e, !.password = pw])
        /\ IF Len(pw) < MinPassword
           THEN End(p, "ValidationFailed")
           ELSE IF \E i \in DOMAIN users : users[i].username = u \/ users[i].email = e
           THEN End(p, "DuplicateIdentity")
           ELSE Goto(p, "register_insert")
        /\ UNCHANGED <<UsersTables, NotesTables, adminEnv, session, found, atBegin, now, noteCap, view, EnvVars>>

\* The INSERT of register and its commit; is_admin takes its DEFAULT 0.  While
\* the write lock is held elsewhere the INSERT times out (OperationalError:
\* database is locked).  A UNIQUE violation is not caught: the handler never
\* closes its connection, whose open transaction keeps the write lock.
RegisterInsert(p) ==
    /\ pc[p] = "register_insert"
    /\ LET row == [username |-> req[p].username, email |-> req[p].email,
                   password |-> req[p].password, is_admin |-> 0]
       IN IF locked
          THEN /\ UNCHANGED <<UsersTables, locked>>
               /\ End(p, "OperationalError")
          ELSE IF UsersUnique(InsertUser(row))
          THEN /\ users' = InsertUser(row)
               /\ nextUserId' = nextUserId + 1
               /\ UNCHANGED locked
               /\ End(p, "Ok")
          ELSE /\ UNCHANGED UsersTables
               /\ locked' = TRUE
               /\ End(p, "IntegrityError")
    /\ UNCHANGED <<NotesTables, adminEnv, session, req, found, atBegin, now, noteCap, view, boot, cli>>

\* ----------------------------------------------------------- login, logout

\* POST /login: one SELECT by username, then the password check.
Login(p) ==
    \E u \in Names, pw \in {"secret1", "wrong1"} :
        /\ Begin(p, [NoReq EXCEPT !.kind = "login", !.username = u, !.password = pw])
        /\ IF \E i \in UserByName(u) : users[i].password = pw
           THEN /\ session' = [session EXCEPT ![p] = CHOOSE i \in UserByName(u) : TRUE]
                /\ End(p, "Ok")
           ELSE /\ UNCHANGED session
                /\ End(p, "InvalidCredentials")
        /\ UNCHANGED <<UsersTables, NotesTables, adminEnv, found, atBegin, now, noteCap, view, EnvVars>>

\* GET /logout
Logout(p) ==
    /\ Begin(p, [NoReq EXCEPT !.kind = "logout"])
    /\ session' = [session EXCEPT ![p] = 0]
    /\ End(p, "Ok")
    /\ UNCHANGED <<UsersTables, NotesTables, adminEnv, found, atBegin, now, noteCap, view, EnvVars>>

\* ----------------------------------------------------------------- profile

\* POST /profile: the session check and the SELECT of the current user; a
\* missing row is answered with a redirect to /logout, and the session stays as
\* it is until the client sends that request.
Profile(p) ==
    \E u \in Names, pw \in {"", "short", "secret1"} :
        /\ Begin(p, [NoReq EXCEPT !.kind = "profile", !.username = u, !.password = pw])
        /\ IF session[p] = 0
           THEN End(p, "Unauthenticated")
           ELSE IF UserById(session[p]) = {}
           THEN End(p, "NotFound")
           ELSE Goto(p, "profile_check")
        /\ UNCHANGED <<UsersTables, NotesTables, adminEnv, session, found, atBegin, now, noteCap, view, EnvVars>>

\* The uniqueness SELECT (other users only), then the length of a new password.
ProfileCheck(p) ==
    /\ pc[p] = "profile_check"
    /\ IF \E i \in UserByName(req[p].username) : i # session[p]
       THEN End(p, "UsernameTaken")
       ELSE IF req[p].password # "" /\ Len(req[p].password) < MinPassword
       THEN End(p, "PasswordTooShort")
       ELSE Goto(p, "profile_update")
    /\ UNCHANGED <<UsersTables, NotesTables, adminEnv, session, req, found, atBegin, now, noteCap, view, EnvVars>>

\* ProfileUpdate written as INSERT OR REPLACE: the row's is_admin falls back to
\* its DEFAULT 0.
ProfileUpdateReplace(p) ==
    /\ pc[p] = "profile_update"
    /\ LET id == session[p]
           new == IF id \in DOMAIN users
                  THEN [users EXCEPT
                          ![id].username = req[p].username,
                          ![id].password = IF req[p].password # ""
                                           THEN req[p].password ELSE @,
                          ![id].is_admin = 0]
                  ELSE users
       IN IF locked
          THEN /\ UNCHANGED <<users, locked>>
               /\ End(p, "OperationalError")
          ELSE IF UsersUnique(new)
          THEN /\ users' = new
               /\ UNCHANGED locked
               /\ End(p, "Ok")
          ELSE /\ UNCHANGED users
               /\ locked' = TRUE
               /\ End(p, "IntegrityError")
    /\ UNCHANGED <<nextUserId, NotesTables, adminEnv, session, req, found, atBegin, now, noteCap, view, boot, cli>>

\* The UPDATE of profile and its commit; no row is touched when the user is
\* gone.  A locked store and a UNIQUE violation end as in RegisterInsert.
ProfileUpdate(p) ==
    /\ pc[p] = "profile_update"
    /\ LET id == session[p]
           new == IF id \in DOMAIN users
                  THEN [users EXCEPT
                          ![id].username = req[p].username,
                          ![id].password = IF req[p].password # ""
                                           THEN req[p].password ELSE @]
                  ELSE users
       IN IF locked
          THEN /\ UNCHANGED <<users, locked>>
               /\ End(p, "OperationalError")
          ELSE IF UsersUnique(new)
          THEN /\ users' = new
               /\ UNCHANGED locked
               /\ End(p, "Ok")
          ELSE /\ UNCHANGED users
               /\ locked' = TRUE
               /\ End(p, "IntegrityError")
    /\ UNCHANGED <<nextUserId, NotesTables, adminEnv, session, req, found, atBegin, now, noteCap, view, boot, cli>>

\* ------------------------------------------------------ admin_required

\* AdminRequired deciding on the session alone.
AdminRequiredSessionOnly(p, r, next) ==
    /\ Begin(p, r)
    /\ IF session[p] = 0
       THEN End(p, "Unauthenticated")
       ELSE Goto(p, next)
    /\ UNCHANGED <<UsersTables, NotesTables, adminEnv, session, found, atBegin, now, noteCap, view, EnvVars>>

\* The decorator's check of an admin page, promote or delete request: a session, and a row
\* with is_admin in (1, 2).
AdminRequired(p, r, next) ==
    /\ Begin(p, r)
    /\ IF session[p] = 0
       THEN End(p, "Unauthenticated")
       ELSE IF \A i \in UserById(session[p]) : users[i].is_admin \notin {1, 2}
       THEN End(p, "Forbidden")
       ELSE Goto(p, next)
    /\ UNCHANGED <<UsersTables, NotesTables, adminEnv, session, found, atBegin, now, noteCap, view, EnvVars>>

\* The handler's SELECT of the current user and the superadmin designation check.
ActorCheck(p, here, next) ==
    /\ pc[p] = here
    /\ IF IsSuperadmin(session[p])
       THEN Goto(p, next)
       ELSE End(p, "Forbidden")
    /\ UNCHANGED <<UsersTables, NotesTables, adminEnv, session, req, found, atBegin, now, noteCap, view, EnvVars>>

\* ---------------------------------------------------------------- /admin

\* GET /admin behind admin_required.
AdminPage(p) == AdminRequired(p, [NoReq EXCEPT !.kind = "admin_page"], "admin_page")

\* The page: the SELECT of all users and of the current user, then the template.
AdminPageRender(p) ==
    /\ pc[p] = "admin_page"
    /\ End(p, "Ok")
    /\ UNCHANGED <<UsersTables, NotesTables, adminEnv, session, req, found, atBegin, now, noteCap, view, EnvVars>>

\* ------------------------------------------------------- /admin/promote

AdminPromote(p) ==
    \E t \in 0..MaxUsers, a \in {"promote", "demote"} :
        AdminRequired(p, [NoReq EXCEPT !.kind = "promote", !.user_id = t, !.action = a],
                      "promote_actor")

PromoteActor(p) == ActorCheck(p, "promote_actor", "promote_target")

\* The SELECT of the target: a superadmin row is protected.  A request
\* without user_id changes nothing.
PromoteTarget(p) ==
    /\ pc[p] = "promote_target"
    /\ IF req[p].user_id = 0
       THEN End(p, "Ok")
       ELSE IF \E i \in UserById(req[p].user_id) : users[i].is_admin = 2
       THEN End(p, "ProtectedAccount")
       ELSE Goto(p, "promote_write")
    /\ UNCHANGED <<UsersTables, NotesTables, adminEnv, session, req, found, atBegin, now, noteCap, view, EnvVars>>

\* UPDATE users SET is_admin = ? WHERE id = ?, and its commit.
PromoteWrite(p) ==
    /\ pc[p] = "promote_write"
    /\ LET id == req[p].user_id
           val == IF req[p].action = "promote" THEN 1 ELSE 0
       IN IF locked
          THEN /\ UNCHANGED users
               /\ End(p, "OperationalError")
          ELSE /\ users' = IF id \in DOMAIN users
                           THEN [users EXCEPT ![id].is_admin = val]
                           ELSE users
               /\ End(p, "Ok")
    /\ UNCHANGED <<nextUserId, NotesTables, adminEnv, session, req, found, atBegin, now, noteCap, view, EnvVars>>

\* -------------------------------------------------------- /admin/delete

AdminDelete(p) ==
    \E t \in 0..MaxUsers :
        AdminRequired(p, [NoReq EXCEPT !.kind = "delete", !.user_id = t], "delete_actor")

DeleteActor(p) == ActorCheck(p, "delete_actor", "delete_target")

\* DeleteTarget without the protection of superadmin rows.
DeleteTargetUnprotected(p) ==
    /\ pc[p] = "delete_target"
    /\ IF req[p].user_id = 0
       THEN End(p, "Ok")
       ELSE Goto(p, "delete_write")
    /\ UNCHANGED <<UsersTables, NotesTables, adminEnv, session, req, found, atBegin, now, noteCap, view, EnvVars>>

\* The SELECT of the target of a delete: a superadmin row is protected.
DeleteTarget(p) ==
    /\ pc[p] = "delete_target"
    /\ IF req[p].user_id = 0
       THEN End(p, "Ok")
       ELSE IF \E i \in UserById(req[p].user_id) : users[i].is_admin = 2
       THEN End(p, "ProtectedAccount")
       ELSE Goto(p, "delete_write")
    /\ UNCHANGED <<UsersTables, NotesTables, adminEnv, session, req, found, atBegin, now, noteCap, view, EnvVars>>

\* DELETE FROM users WHERE id = ?, and its commit.
DeleteWrite(p) ==
    /\ pc[p] = "delete_write"
    /\ IF locked
       THEN /\ UNCHANGED users
            /\ End(p, "OperationalError")
       ELSE /\ users' = DeleteUser(req[p].user_id)
            /\ End(p, "Ok")
    /\ UNCHANGED <<nextUserId, NotesTables, adminEnv, session, req, found, atBegin, now, noteCap, view, EnvVars>>

\* ------------------------------------------------------------------ notes

\* The form's validators on a note's content: DataRequired refuses a content
\* that is empty or all whitespace, Length(min=1, max=500) one too short or too long.
ValidContent(c) == ~c.blank /\ c.len >= MinContent /\ c.len <= MaxContent

\* INSERT INTO notes (...) VALUES (...): the table with the row added
InsertNote(row) == [i \in DOMAIN notes \cup {nextNoteId} |->
                        IF i \in DOMAIN notes THEN notes[i] ELSE row]

\* SELECT id FROM notes WHERE id = ?
NoteById(id) == IF id \in DOMAIN notes THEN {id} ELSE {}

\* POST /notes/create: a top-level note (parent_note_id NULL, modelled as 0).
CreateNote(p) ==
    \E c \in Contents :
        /\ nextNoteId <= noteCap
        /\ Begin(p, [NoReq EXCEPT !.kind = "create_note", !.content = c])
        /\ IF session[p] = 0
           THEN /\ End(p, "Unauthenticated")
                /\ UNCHANGED <<notes, nextNoteId>>
           ELSE IF ~ValidContent(c)
           THEN /\ End(p, "ValidationFailed")
                /\ UNCHANGED <<notes, nextNoteId>>
           ELSE IF locked
           THEN /\ End(p, "OperationalError")
                /\ UNCHANGED <<notes, nextNoteId>>
           ELSE /\ notes' = InsertNote([user_id |-> session[p], parent_note_id |-> 0,
                                        content |-> c.len, created_at |-> now])
                /\ nextNoteId' = nextNoteId + 1
                /\ End(p, "Ok")
        /\ UNCHANGED <<UsersTables, reactions, adminEnv, session, found, atBegin, now, noteCap, view, EnvVars>>

\* CreateReply without the SELECT of the parent.
CreateReplyNoParentCheck(p) ==
    \E n \in NoteIds, c \in Contents :
        /\ nextNoteId <= noteCap
        /\ Begin(p, [NoReq EXCEPT !.kind = "create_reply", !.note_id = n, !.content = c])
        /\ IF session[p] = 0
           THEN End(p, "Unauthenticated")
           ELSE IF ~ValidContent(c)
           THEN End(p, "ValidationFailed")
           ELSE Goto(p, "reply_insert")
        /\ UNCHANGED <<UsersTables, NotesTables, adminEnv, session, found, atBegin, now, noteCap, view, EnvVars>>

\* POST /notes/<id>/reply: the session, the form, then the SELECT of the parent.
CreateReply(p) ==
    \E n \in NoteIds, c \in Contents :
        /\ nextNoteId <= noteCap
        /\ Begin(p, [NoReq EXCEPT !.kind = "create_reply", !.note_id = n, !.content = c])
        /\ IF session[p] = 0
           THEN End(p, "Unauthenticated")
           ELSE IF ~ValidContent(c)
           THEN End(p, "ValidationFailed")
           ELSE IF NoteById(n) = {}
           THEN End(p, "NotFound")
           ELSE Goto(p, "reply_insert")
        /\ UNCHANGED <<UsersTables, NotesTables, adminEnv, session, found, atBegin, now, noteCap, view, EnvVars>>

\* The INSERT of the reply and its commit.
ReplyInsert(p) ==
    /\ pc[p] = "reply_insert"
    /\ IF locked
       THEN /\ UNCHANGED <<notes, nextNoteId>>
            /\ End(p, "OperationalError")
       ELSE /\ notes' = InsertNote([user_id |-> session[p], parent_note_id |-> req[p].note_id,
                                    content |-> req[p].content.len, created_at |-> now])
            /\ nextNoteId' = nextNoteId + 1
            /\ End(p, "Ok")
    /\ UNCHANGED <<UsersTables, reactions, adminEnv, session, req, found, atBegin, now, noteCap, view, EnvVars>>

\* ---------------------------------------------------------------- listing

\* The orders ORDER BY created_at can return the notes of S in, ascending or
\* descending: rows with equal created_at come in either order.
Orderings(S, asc) ==
    {sq \in [1..Cardinality(S) -> S] :
        /\ \A a, b \in 1..Cardinality(S) : a # b => sq[a] # sq[b]
        /\ \A a \in 1..(Cardinality(S) - 1) :
              IF asc THEN notes[sq[a]].created_at <= notes[sq[a + 1]].created_at
                     ELSE notes[sq[a]].created_at >= notes[sq[a + 1]].created_at}

\* FROM notes n JOIN users u ON n.user_id = u.id WHERE n.parent_note_id IS NULL
TopLevelRows == {i \in DOMAIN notes : notes[i].parent_note_id = 0
                                      /\ notes[i].user_id \in DOMAIN users}

\* FROM notes n JOIN users u ON n.user_id = u.id WHERE n.parent_note_id = ?
ReplyRows(n) == {i \in DOMAIN notes : notes[i].parent_note_id = n
                                      /\ notes[i].user_id \in DOMAIN users}

\* The top-level notes, ORDER BY n.created_at DESC
ListTopLevel == Orderings(TopLevelRows, FALSE)

\* The replies of note n, ORDER BY n.created_at ASC
ListReplies(n) == Orderings(ReplyRows(n), TRUE)

\* GET /notes: the session, then the SELECT of the top-level notes.
NotesList(p) ==
    /\ Begin(p, [NoReq EXCEPT !.kind = "notes_list"])
    /\ IF session[p] = 0
       THEN /\ End(p, "Unauthenticated")
            /\ UNCHANGED view
       ELSE \E top \in ListTopLevel :
               /\ view' = [view EXCEPT ![p] = [top |-> top, replies |-> <<>>]]
               /\ IF top = <<>> THEN End(p, "Ok") ELSE Goto(p, "list_replies")
    /\ UNCHANGED <<UsersTables, NotesTables, adminEnv, session, found, atBegin, now, noteCap, EnvVars>>

\* The loop of notes_list over the top-level notes it has read: one SELECT of
\* the replies per note, in the order of the listing; the page is rendered
\* after the last one.
NotesListReplies(p) ==
    /\ pc[p] = "list_replies"
    /\ LET top == view[p].top
           k == Cardinality(DOMAIN view[p].replies) + 1
       IN \E rep \in ListReplies(top[k]) :
             /\ view' = [view EXCEPT ![p].replies = @ @@ (top[k] :> rep)]
             /\ IF k = Len(top) THEN End(p, "Ok") ELSE Goto(p, "list_replies")
    /\ UNCHANGED <<UsersTables, NotesTables, adminEnv, session, req, found, atBegin, now,
                   noteCap, EnvVars>>

\* A second passes on the store's clock.
Tick ==
    /\ now < MaxTime
    /\ now' = now + 1
    /\ UNCHANGED <<UsersTables, NotesTables, adminEnv, session, pc, req, found, result,
                   atBegin, noteCap, view, EnvVars>>

\* -------------------------------------------------------------- reactions

Triple(n, u, e) == [note_id |-> n, user_id |-> u, emoji |-> e]

\* The reaction a react request is about.
ReqTriple(p) == Triple(req[p].note_id, session[p], req[p].emoji)

\* SELECT emoji, COUNT(*) FROM reactions WHERE note_id = ? GROUP BY emoji
Aggregate(n) ==
    [e \in {t.emoji : t \in {r \in BagToSet(reactions) : r.note_id = n}} |->
        BagCardinality([t \in {r \in BagToSet(reactions) : r.note_id = n /\ r.emoji = e}
                            |-> reactions[t]])]

\* SELECT DISTINCT emoji FROM reactions WHERE note_id = ? AND user_id = ?
ReactedBy(n, u) == {t.emoji : t \in {r \in BagToSet(reactions) :
                                        r.note_id = n /\ r.user_id = u}}

\* POST /notes/<id>/react: the session, the emoji, then the SELECT of the note.
React(p) ==
    \E n \in NoteIds, e \in Emojis \cup {""} :
        /\ Begin(p, [NoReq EXCEPT !.kind = "react", !.note_id = n, !.emoji = e])
        /\ IF session[p] = 0
           THEN End(p, "Unauthenticated")
           ELSE IF e = ""
           THEN End(p, "ValidationFailed")
           ELSE IF NoteById(n) = {}
           THEN End(p, "NotFound")
           ELSE Goto(p, "react_check")
        /\ atBegin' = [atBegin EXCEPT ![p] = BagIn(Triple(n, session[p], e), reactions)]
        /\ UNCHANGED <<UsersTables, NotesTables, adminEnv, session, found, now, noteCap, view, EnvVars>>

\* SELECT id FROM reactions WHERE note_id = ? AND user_id = ? AND emoji = ?
ReactCheck(p) ==
    /\ pc[p] = "react_check"
    /\ found' = [found EXCEPT ![p] = BagIn(ReqTriple(p), reactions)]
    /\ Goto(p, "react_write")
    /\ UNCHANGED <<UsersTables, NotesTables, adminEnv, session, req, atBegin, now, noteCap, view, EnvVars>>

\* ReactWrite deciding on the table as it is at the write, not on what the
\* SELECT found.
ReactWriteRecheck(p) ==
    /\ pc[p] = "react_write"
    /\ LET t == ReqTriple(p)
       IN IF locked
          THEN /\ UNCHANGED reactions
               /\ End(p, "OperationalError")
          ELSE IF BagIn(t, reactions)
          THEN /\ reactions' = [x \in DOMAIN reactions \ {t} |-> reactions[x]]
               /\ End(p, "Removed")
          ELSE /\ reactions' = reactions (+) SetToBag({t})
               /\ End(p, "Added")
    /\ UNCHANGED <<UsersTables, notes, nextNoteId, adminEnv, session, req, found, atBegin, now, noteCap, view, EnvVars>>

\* ReactWrite on a table without UNIQUE(note_id, user_id, emoji).
ReactWriteNoUnique(p) ==
    /\ pc[p] = "react_write"
    /\ LET t == ReqTriple(p)
       IN IF locked
          THEN /\ UNCHANGED reactions
               /\ End(p, "OperationalError")
          ELSE IF found[p]
          THEN /\ reactions' = [x \in DOMAIN reactions \ {t} |-> reactions[x]]
               /\ End(p, "Removed")
          ELSE /\ reactions' = reactions (+) SetToBag({t})
               /\ End(p, "Added")
    /\ UNCHANGED <<UsersTables, notes, nextNoteId, adminEnv, session, req, found, atBegin, now, noteCap, view, EnvVars>>

\* The DELETE of a reaction that was found, or the INSERT of one that was not,
\* and the commit; UNIQUE(note_id, user_id, emoji) rejects a second row, which
\* the handler catches.
ReactWrite(p) ==
    /\ pc[p] = "react_write"
    /\ LET t == ReqTriple(p)
       IN IF locked
          THEN /\ UNCHANGED reactions
               /\ End(p, "OperationalError")
          ELSE IF found[p]
          THEN /\ reactions' = [x \in DOMAIN reactions \ {t} |-> reactions[x]]
               /\ End(p, "Removed")
          ELSE IF BagIn(t, reactions)
          THEN /\ UNCHANGED reactions
               /\ End(p, "AlreadyReacted")
          ELSE /\ reactions' = reactions (+) SetToBag({t})
               /\ End(p, "Added")
    /\ UNCHANGED <<UsersTables, notes, nextNoteId, adminEnv, session, req, found, atBegin, now, noteCap, view, EnvVars>>

\* The response is sent: the request's locals are dropped.
Respond(p) ==
    /\ pc[p] = "done"
    /\ pc' = [pc EXCEPT ![p] = "idle"]
    /\ req' = [req EXCEPT ![p] = NoReq]
    /\ result' = [result EXCEPT ![p] = ""]
    /\ found' = [found EXCEPT ![p] = FALSE]
    /\ atBegin' = [atBegin EXCEPT ![p] = FALSE]
    /\ view' = [view EXCEPT ![p] = NoView]
    /\ UNCHANGED <<UsersTables, NotesTables, adminEnv, session, now, noteCap, EnvVars>>

\* ------------------------------------------- init_db and manage_admin.py

\* init_db's bootstrap, first statement: with ADMIN_USER (and ADMIN_PASS) set,
\* the SELECT of the user of that name; the INSERT follows when there is none.
BootstrapCheck ==
    /\ adminEnv # ""
    /\ boot = "idle"
    /\ UserByName(adminEnv) = {}
    /\ nextUserId <= MaxUsers
    /\ boot' = "insert"
    /\ UNCHANGED <<UsersTables, NotesTables, adminEnv, session, pc, req, found, result,
                   atBegin, now, noteCap, view, locked, cli>>

\* init_db's bootstrap, second statement: the superadmin row is inserted with
\* the email <name>@local and committed.  The INSERT is refused while the write
\* lock is held, and on a name or email taken since the SELECT; neither error
\* is caught, and after the second the connection is left open in its
\* transaction.
BootstrapInsert ==
    /\ boot = "insert"
    /\ LET row == [username |-> adminEnv, email |-> LocalEmail(adminEnv),
                   password |-> "secret1", is_admin |-> 2]
       IN IF locked
          THEN UNCHANGED <<UsersTables, locked>>
          ELSE IF UsersUnique(InsertUser(row))
          THEN /\ users' = InsertUser(row)
               /\ nextUserId' = nextUserId + 1
               /\ UNCHANGED locked
          ELSE /\ locked' = TRUE
               /\ UNCHANGED UsersTables
    /\ boot' = "idle"
    /\ UNCHANGED <<NotesTables, adminEnv, session, pc, req, found, result,
                   atBegin, now, noteCap, view, cli>>

\* The server is restarted with ADMIN_USER set or unset; the connections of the
\* old process are closed.
Reconfigure ==
    /\ AllIdle
    /\ boot = "idle"
    /\ adminEnv' = IF adminEnv = "" THEN PinnedName ELSE ""
    /\ locked' = FALSE
    /\ UNCHANGED <<UsersTables, NotesTables, session, pc, req, found, result, atBegin, now,
                   noteCap, view, boot, cli>>

\* A connection left open by a failed request is garbage-collected: its
\* transaction is rolled back and the write lock released.
Collect ==
    /\ locked
    /\ locked' = FALSE
    /\ UNCHANGED <<UsersTables, NotesTables, adminEnv, session, pc, req, found, result,
                   atBegin, now, noteCap, view, boot, cli>>

\* manage_admin.py create, first statement: SELECT id FROM users WHERE username = ?
CliCreateAdmin ==
    \E u \in CliNames :
        /\ cli.pc = "idle"
        /\ IF UserByName(u) # {}
           THEN cli' = [pc |-> "update", id |-> CHOOSE i \in UserByName(u) : TRUE, name |-> u]
           ELSE /\ nextUserId <= MaxUsers
                /\ cli' = [pc |-> "insert", id |-> 0, name |-> u]
        /\ UNCHANGED <<UsersTables, NotesTables, adminEnv, session, pc, req, found, result,
                       atBegin, now, noteCap, view, locked, boot>>

\* manage_admin.py create, the user was found: UPDATE users SET password = ?,
\* is_admin = 1 WHERE id = ? with the id the SELECT returned, and the commit.
\* While the write lock is held the UPDATE raises OperationalError and the
\* command ends with nothing written.
CliCreateUpdate ==
    /\ cli.pc = "update"
    /\ users' = IF ~locked /\ cli.id \in DOMAIN users
                THEN [users EXCEPT ![cli.id].password = "secret1",
                                   ![cli.id].is_admin = 1]
                ELSE users
    /\ cli' = NoCli
    /\ UNCHANGED <<nextUserId, NotesTables, adminEnv, session, pc, req, found, result,
                   atBegin, now, noteCap, view, locked, boot>>

\* manage_admin.py create, no user was found: the INSERT of an admin row with
\* the email <name>@local, and the commit.  A name or email taken since the
\* SELECT raises IntegrityError, a held write lock OperationalError; the
\* process ends with nothing written and holds no lock.
CliCreateInsert ==
    /\ cli.pc = "insert"
    /\ LET row == [username |-> cli.name, email |-> LocalEmail(cli.name),
                   password |-> "secret1", is_admin |-> 1]
       IN IF ~locked /\ UsersUnique(InsertUser(row))
          THEN /\ users' = InsertUser(row)
               /\ nextUserId' = nextUserId + 1
          ELSE UNCHANGED UsersTables
    /\ cli' = NoCli
    /\ UNCHANGED <<NotesTables, adminEnv, session, pc, req, found, result,
                   atBegin, now, noteCap, view, locked, boot>>

\* manage_admin.py promote / demote: UPDATE users SET is_admin = ? WHERE username = ?
\* (nothing is written while the write lock is held)
CliSetRole ==
    \E u \in CliNames, val \in {0, 1} :
        /\ users' = [i \in DOMAIN users |->
                       IF ~locked /\ users[i].username = u
                       THEN [users[i] EXCEPT !.is_admin = val] ELSE users[i]]
        /\ UNCHANGED <<nextUserId, NotesTables, adminEnv, session, pc, req, found, result,
                       atBegin, now, noteCap, view, EnvVars>>

\* manage_admin.py delete: DELETE FROM users WHERE username = ?
\* (nothing is written while the write lock is held)
CliDelete ==
    \E u \in CliNames :
        /\ users' = IF locked THEN users
                    ELSE [i \in DOMAIN users \ UserByName(u) |-> users[i]]
        /\ UNCHANGED <<nextUserId, NotesTables, adminEnv, session, pc, req, found, result,
                       atBegin, now, noteCap, view, EnvVars>>

\* ------------------------------------------------------------ specifications

Init ==
    /\ users = <<>>
    /\ nextUserId = 1
    /\ notes = <<>>
    /\ nextNoteId = 1
    /\ reactions = EmptyBag
    /\ adminEnv \in {"", PinnedName}
    /\ session = [p \in Clients |-> 0]
    /\ pc = [p \in Clients |-> "idle"]
    /\ req = [p \in Clients |-> NoReq]
    /\ found = [p \in Clients |-> FALSE]
    /\ result = [p \in Clients |-> ""]
    /\ atBegin = [p \in Clients |-> FALSE]
    /\ now = 0
    /\ noteCap = MaxNotes
    /\ view = [p \in Clients |-> NoView]
    /\ locked = FALSE
    /\ boot = "idle"
    /\ cli = NoCli

\* The account and admin requests of one client.
UserStep(p) ==
    \/ Register(p)
    \/ RegisterInsert(p)
    \/ Login(p)
    \/ Logout(p)
    \/ Profile(p)
    \/ ProfileCheck(p)
    \/ ProfileUpdate(p)
    \/ AdminPromote(p)
    \/ PromoteActor(p)
    \/ PromoteTarget(p)
    \/ PromoteWrite(p)
    \/ AdminDelete(p)
    \/ DeleteActor(p)
    \/ DeleteTarget(p)
    \/ DeleteWrite(p)
    \/ AdminPage(p)
    \/ AdminPageRender(p)
    \/ Respond(p)

\* The notes board requests of one client.
BoardStep(p) ==
    \/ CreateNote(p)
    \/ CreateReply(p)
    \/ ReplyInsert(p)
    \/ NotesList(p)
    \/ NotesListReplies(p)
    \/ React(p)
    \/ ReactCheck(p)
    \/ ReactWrite(p)

\* init_db, the restart, the garbage collector, the clock and manage_admin.py.
EnvStep ==
    \/ BootstrapCheck
    \/ BootstrapInsert
    \/ Reconfigure
    \/ Collect
    \/ Tick
    \/ CliCreateAdmin
    \/ CliCreateUpdate
    \/ CliCreateInsert
    \/ CliSetRole
    \/ CliDelete

\* The program: the requests of the clients, served in threads, and its
\* environment, interleaved statement by statement.
Next ==
    \/ \E p \in Clients : UserStep(p) \/ BoardStep(p)
    \/ EnvStep

Spec == Init /\ [][Next]_vars

\* A store the program reaches: the bootstrapped superadmin
\* and a registered user, ADMIN_USER pinned, the first client logged in as the
\* superadmin and the second as either of the two.
InitConc ==
    /\ users = [i \in {1, 2} |->
                  IF i = 1
                  THEN [username |-> PinnedName, email |-> LocalEmail(PinnedName),
                        password |-> "secret1", is_admin |-> 2]
                  ELSE [username |-> "alice", email |-> "alice@x.io",
                        password |-> "secret1", is_admin |-> 0]]
    /\ nextUserId = 3
    /\ notes = <<>>
    /\ nextNoteId = 1
    /\ reactions = EmptyBag
    /\ adminEnv = PinnedName
    /\ session \in {s \in [Clients -> 1..2] : s["c1"] = 1}
    /\ pc = [p \in Clients |-> "idle"]
    /\ req = [p \in Clients |-> NoReq]
    /\ found = [p \in Clients |-> FALSE]
    /\ result = [p \in Clients |-> ""]
    /\ atBegin = [p \in Clients |-> FALSE]
    /\ now = 0
    /\ noteCap = MaxNotes
    /\ view = [p \in Clients |-> NoView]
    /\ locked = FALSE
    /\ boot = "idle"
    /\ cli = NoCli

\* The promote, demote and delete requests of one client.
AdminStep(p) ==
    \/ AdminPromote(p)
    \/ PromoteActor(p)
    \/ PromoteTarget(p)
    \/ PromoteWrite(p)
    \/ AdminDelete(p)
    \/ DeleteActor(p)
    \/ DeleteTarget(p)
    \/ DeleteWrite(p)

\* The register and profile requests of one client.
AccountStep(p) ==
    \/ Register(p)
    \/ RegisterInsert(p)
    \/ Profile(p)
    \/ ProfileCheck(p)
    \/ ProfileUpdate(p)

\* Admin requests of the two clients, the bootstrap, the garbage collector and
\* the command line, interleaved statement by statement.
NextConc ==
    \/ \E p \in Clients : AdminStep(p)
    \/ \E p \in Clients : Respond(p)
    \/ BootstrapCheck
    \/ BootstrapInsert
    \/ Collect
    \/ CliCreateAdmin
    \/ CliCreateUpdate
    \/ CliCreateInsert
    \/ CliSetRole
    \/ CliDelete

SpecConc == InitConc /\ [][NextConc]_vars

\* Logout, admin page and admin requests of the two clients, the restart, the
\* bootstrap, the garbage collector and the command line, interleaved
\* statement by statement.
NextProtect ==
    \/ \E p \in Clients : Logout(p)
    \/ \E p \in Clients : AdminPage(p) \/ AdminPageRender(p)
    \/ \E p \in Clients : AdminStep(p)
    \/ \E p \in Clients : Respond(p)
    \/ Reconfigure
    \/ BootstrapCheck
    \/ BootstrapInsert
    \/ Collect
    \/ CliCreateAdmin
    \/ CliCreateUpdate
    \/ CliCreateInsert
    \/ CliSetRole
    \/ CliDelete

SpecProtect == InitConc /\ [][NextProtect]_vars

\* Profile, logout, admin page and admin requests of the two clients, the
\* restart, the bootstrap and the garbage collector, interleaved statement by
\* statement.
NextAdmin ==
    \/ \E p \in Clients : Profile(p) \/ ProfileCheck(p) \/ ProfileUpdate(p)
    \/ \E p \in Clients : Logout(p)
    \/ \E p \in Clients : AdminPage(p) \/ AdminPageRender(p)
    \/ \E p \in Clients : AdminStep(p)
    \/ \E p \in Clients : Respond(p)
    \/ Reconfigure
    \/ BootstrapCheck
    \/ BootstrapInsert
    \/ Collect

SpecAdmin == InitConc /\ [][NextAdmin]_vars

\* Register and profile requests of the two clients, interleaved statement by
\* statement, and the garbage collector.
NextAccounts ==
    \/ \E p \in Clients : AccountStep(p) \/ Respond(p)
    \/ Collect

SpecAccounts == InitConc /\ [][NextAccounts]_vars

\* The notes board: two registered users, the first client logged in as alice,
\* the second as alice, as bob, or not at all.
InitNotes ==
    /\ users = [i \in {1, 2} |->
                  [username |-> IF i = 1 THEN "alice" ELSE "bob",
                   email |-> IF i = 1 THEN "alice@x.io" ELSE "bob@x.io",
                   password |-> "secret1", is_admin |-> 0]]
    /\ nextUserId = 3
    /\ notes = <<>>
    /\ nextNoteId = 1
    /\ reactions = EmptyBag
    /\ adminEnv = ""
    /\ session \in {s \in [Clients -> 0..2] : s["c1"] = 1}
    /\ pc = [p \in Clients |-> "idle"]
    /\ req = [p \in Clients |-> NoReq]
    /\ found = [p \in Clients |-> FALSE]
    /\ result = [p \in Clients |-> ""]
    /\ atBegin = [p \in Clients |-> FALSE]
    /\ now = 0
    /\ noteCap = MaxNotes
    /\ view = [p \in Clients |-> NoView]
    /\ locked = FALSE
    /\ boot = "idle"
    /\ cli = NoCli

NoteStep(p) ==
    \/ CreateNote(p)
    \/ CreateReply(p)
    \/ ReplyInsert(p)
    \/ React(p)
    \/ ReactCheck(p)
    \/ ReactWrite(p)
    \/ Respond(p)

\* Note and reaction requests of the two clients, interleaved statement by
\* statement.
NextNotesConc == \E p \in Clients : NoteStep(p)

SpecNotesConc == InitNotes /\ [][NextNotesConc]_vars

\* Posting, reacting and profile requests of the two clients, interleaved
\* statement by statement, and the garbage collector.
NextToggle ==
    \/ \E p \in Clients : CreateNote(p)
    \/ \E p \in Clients : React(p) \/ ReactCheck(p) \/ ReactWrite(p)
    \/ \E p \in Clients : Profile(p) \/ ProfileCheck(p) \/ ProfileUpdate(p)
    \/ \E p \in Clients : Respond(p)
    \/ Collect

SpecToggle == InitNotes /\ [][NextToggle]_vars

\* The board as InitNotes has it, let grow to MaxThreadNotes notes.
InitThreads ==
    /\ users = [i \in {1, 2} |->
                  [username |-> IF i = 1 THEN "alice" ELSE "bob",
                   email |-> IF i = 1 THEN "alice@x.io" ELSE "bob@x.io",
                   password |-> "secret1", is_admin |-> 0]]
    /\ nextUserId = 3
    /\ notes = <<>>
    /\ nextNoteId = 1
    /\ reactions = EmptyBag
    /\ adminEnv = ""
    /\ session \in {s \in [Clients -> 0..2] : s["c1"] = 1}
    /\ pc = [p \in Clients |-> "idle"]
    /\ req = [p \in Clients |-> NoReq]
    /\ found = [p \in Clients |-> FALSE]
    /\ result = [p \in Clients |-> ""]
    /\ atBegin = [p \in Clients |-> FALSE]
    /\ now = 0
    /\ noteCap = MaxThreadNotes
    /\ view = [p \in Clients |-> NoView]
    /\ locked = FALSE
    /\ boot = "idle"
    /\ cli = NoCli

\* Posting, replying and listing.
ThreadStep(p) ==
    \/ CreateNote(p)
    \/ CreateReply(p)
    \/ ReplyInsert(p)
    \/ NotesList(p)
    \/ NotesListReplies(p)
    \/ Respond(p)

\* Thread requests interleaved statement by statement, while the clock runs.
NextThreads ==
    \/ \E p \in Clients : ThreadStep(p)
    \/ Tick

SpecThreads == InitThreads /\ [][NextThreads]_vars

\* Deleting users, posting and reacting.
OrphanStep(p) ==
    \/ AdminStep(p)
    \/ CreateNote(p)
    \/ React(p)
    \/ ReactCheck(p)
    \/ ReactWrite(p)
    \/ Respond(p)

\* Admin, note and reaction requests interleaved statement by statement.
NextOrphans == \E p \in Clients : OrphanStep(p)

SpecOrphans == InitConc /\ [][NextOrphans]_vars

\* ------------------------------------------------------------------ claims

Superadmins == {i \in DOMAIN users : users[i].is_admin = 2}

\* Client p takes a step of a promote, demote or delete request.
AdminMoves(p) ==
    /\ pc'[p] # pc[p]
    /\ pc[p] # "done"
    /\ req'[p].kind \in {"promote", "delete"}

\* Client p's promote, demote or delete request ends in this step.
AdminEnds(p) == AdminMoves(p) /\ pc'[p] = "done"

\* What a successful promote, demote or delete leaves of target t.
AdminEffect(p, t) ==
    /\ \A i \in DOMAIN users \ {t} : i \in DOMAIN users' /\ users'[i] = users[i]
    /\ IF req'[p].kind = "delete"
       THEN DOMAIN users' = DOMAIN users \ {t}
       ELSE /\ DOMAIN users' = DOMAIN users
            /\ users'[t] = [users[t] EXCEPT
                              !.is_admin = IF req'[p].action = "promote" THEN 1 ELSE 0]

\* C1 as stated: no step of a web promote, demote or delete request changes the set of
\* superadmins: every is_admin = 2 row is still there, unchanged, no other row
\* has become is_admin = 2, and a row the request updates gets is_admin 1
\* (promote) or 0 (demote).
C1_SuperadminsUntouched ==
    [][\A p \in Clients : AdminMoves(p) =>
          /\ \A i \in Superadmins : i \in DOMAIN users' /\ users'[i] = users[i]
          /\ Superadmins' = Superadmins
          /\ \A i \in DOMAIN users \cap DOMAIN users' :
                users'[i] # users[i] =>
                    /\ i = req'[p].user_id
                    /\ users'[i].is_admin = IF req'[p].action = "promote" THEN 1 ELSE 0
      ]_vars

\* C2 as stated: with ADMIN_USER configured, a promote, demote or delete
\* request ends Ok only for an actor with is_admin = 2 and that username; any
\* other logged-in actor ends Forbidden with the users table unchanged; and the
\* pinned superadmin's request on an is_admin 0 or 1 target ends Ok with its
\* effect.
C2_PinnedGate ==
    [][\A p \in Clients : (adminEnv # "" /\ AdminEnds(p)) =>
          LET a == session[p]
              t == req'[p].user_id
              pinned == /\ a \in DOMAIN users
                        /\ users[a].is_admin = 2
                        /\ users[a].username = adminEnv
          IN /\ result'[p] = "Ok" => pinned
             /\ (a # 0 /\ ~pinned) => (result'[p] = "Forbidden" /\ users' = users)
             /\ (pinned /\ t \in DOMAIN users /\ users[t].is_admin \in {0, 1}) =>
                    (result'[p] = "Ok" /\ AdminEffect(p, t))
      ]_vars

RegisterEnds(p) ==
    /\ pc[p] # "done" /\ pc'[p] = "done"
    /\ req'[p].kind = "register"

\* C8 as stated: a register request that passes the form's validation and whose
\* username or email an existing user has ends DuplicateIdentity with the
\* users table unchanged; any other that passes ends Ok with exactly one new
\* row, of is_admin 0; and no two users share a username or an email.
C8_RegisterUnique ==
    /\ []UsersUnique(users)
    /\ [][\A p \in Clients : (RegisterEnds(p) /\ result'[p] # "ValidationFailed") =>
            LET u == req'[p].username
                e == req'[p].email
            IN IF \E i \in DOMAIN users : users[i].username = u \/ users[i].email = e
               THEN result'[p] = "DuplicateIdentity" /\ users' = users
               ELSE /\ result'[p] = "Ok"
                    /\ \A i \in DOMAIN users : i \in DOMAIN users' /\ users'[i] = users[i]
                    /\ \E n \in DOMAIN users' \ DOMAIN users :
                          /\ DOMAIN users' = DOMAIN users \cup {n}
                          /\ users'[n] = [username |-> u, email |-> e,
                                          password |-> req'[p].password, is_admin |-> 0]
        ]_vars

\* C4 as stated: the UPDATE or DELETE of a promote, demote or delete request is
\* applied only to a store in which the request's checks pass: the actor is
\* the designated superadmin and the target is no superadmin.
C4_WriteOnlyWhereChecksPass ==
    [][\A p \in Clients :
          (/\ pc[p] \in {"promote_write", "delete_write"} /\ pc'[p] = "done"
           /\ result'[p] = "Ok") =>
              /\ IsSuperadmin(session[p])
              /\ req[p].user_id \notin Superadmins
      ]_vars

\* Both clients have completed a toggle of one reaction.
BothToggled(p, q) ==
    /\ p # q
    /\ pc[p] = "done" /\ pc[q] = "done"
    /\ req[p].kind = "react" /\ req[q].kind = "react"
    /\ result[p] \in {"Added", "Removed", "AlreadyReacted"}
    /\ result[q] \in {"Added", "Removed", "AlreadyReacted"}
    /\ ReqTriple(p) = ReqTriple(q)

\* C5 as stated: two concurrent toggles of one reaction, begun on the same
\* store, leave it as exactly one toggle would: there if it was not, gone if
\* it was.
C5_ExactlyOneToggle ==
    \A p, q \in Clients :
        (BothToggled(p, q) /\ atBegin[p] = atBegin[q]) =>
            BagIn(ReqTriple(p), reactions) = ~atBegin[p]

\* C5 as amended: a toggle's write changes the table only when the table is
\* still as its existence check found it, and then toggles the one reaction
\* (Added or Removed); when a concurrent toggle of the same reaction was
\* committed in between it changes nothing (the INSERT is refused by UNIQUE and
\* reported as already reacted, the DELETE finds no row).  So of two concurrent
\* toggles whose checks both precede both writes at most one takes effect,
\* while a toggle whose check follows the other's write is a toggle of its own.
C5_OneToggleWhenBothCheckFirst ==
    [][\A p \in Clients : (pc[p] = "react_write" /\ pc'[p] = "done") =>
          LET t == ReqTriple(p)
          IN /\ reactions' # reactions =>
                    /\ BagIn(t, reactions) = found[p]
                    /\ CopiesIn(t, reactions') = IF found[p] THEN 0 ELSE 1
                    /\ result'[p] = IF found[p] THEN "Removed" ELSE "Added"
                    /\ \A x \in (BagToSet(reactions) \cup BagToSet(reactions')) \ {t} :
                          CopiesIn(x, reactions') = CopiesIn(x, reactions)
             /\ result'[p] \in {"Added", "Removed"} =>
                    CopiesIn(t, reactions') = IF found[p] THEN 0 ELSE 1
             /\ result'[p] = "AlreadyReacted" =>
                    ~found[p] /\ BagIn(t, reactions) /\ reactions' = reactions
      ]_vars

\* Two toggles of an absent reaction both found it absent; one added it and
\* the other was refused.
C5_Witness ==
    \E p, q \in Clients :
        /\ BothToggled(p, q)
        /\ ~atBegin[p] /\ ~atBegin[q]
        /\ ~found[p] /\ ~found[q]
        /\ result[p] = "Added" /\ result[q] = "AlreadyReacted"
        /\ CopiesIn(ReqTriple(p), reactions) = 1

\* The number of users whose reaction to note n is emoji e, as aggregate counts it.
AggCount(n, e) == IF e \in DOMAIN Aggregate(n) THEN Aggregate(n)[e] ELSE 0

\* C6 as stated: a toggle that follows the toggles before it in sequence (the
\* table is at its write as its existence check found it) reports Added for an
\* absent reaction and stores it once, and reports Removed for a present one
\* (the second of two) and leaves none, so that the user is no longer among
\* those who reacted and aggregate counts one less for the emoji; the reactions
\* of every other triple are as they were.
C6_ToggleTwice ==
    [][\A p \in Clients :
          (/\ pc[p] = "react_write" /\ pc'[p] = "done"
           /\ found[p] = BagIn(ReqTriple(p), reactions)) =>
          LET t == ReqTriple(p)
          IN /\ \A x \in (BagToSet(reactions) \cup BagToSet(reactions')) \ {t} :
                    CopiesIn(x, reactions') = CopiesIn(x, reactions)
             /\ IF ~BagIn(t, reactions)
                THEN /\ result'[p] = "Added"
                     /\ CopiesIn(t, reactions') = 1
                     /\ AggCount(t.note_id, t.emoji)' = AggCount(t.note_id, t.emoji) + 1
                ELSE /\ result'[p] = "Removed"
                     /\ CopiesIn(t, reactions') = 0
                     /\ t.emoji \notin ReactedBy(t.note_id, t.user_id)'
                     /\ AggCount(t.note_id, t.emoji)' + 1 = AggCount(t.note_id, t.emoji)
      ]_vars

\* C7: the reactions table holds at most one row per (note_id, user_id,
\* emoji), and aggregate counts, for a note and an emoji, the users who reacted.
C7_TripleUnique ==
    /\ \A t \in BagToSet(reactions) : CopiesIn(t, reactions) = 1
    /\ \A n \in NoteIds, e \in Emojis :
          AggCount(n, e) = Cardinality({u \in 0..MaxUsers :
                                            BagIn(Triple(n, u, e), reactions)})

\* Two inserts of one reaction raced, and UNIQUE refused the second.
C7_Witness ==
    \E p \in Clients :
        /\ pc[p] = "done" /\ req[p].kind = "react" /\ result[p] = "AlreadyReacted"
        /\ CopiesIn(ReqTriple(p), reactions) = 1

\* C9 as stated: no request ends with an unhandled exception of the store.
C9_NoUnstructuredFailure ==
    \A p \in Clients : result[p] \notin {"IntegrityError", "OperationalError"}

\* C10: a reply to a note that does not exist inserts nothing and, from a
\* logged-in author with valid content, ends NotFound; and every note's
\* parent_note_id is NULL or the id of a note.
C10_ParentExists ==
    /\ [](\A i \in DOMAIN notes :
            notes[i].parent_note_id = 0 \/ notes[i].parent_note_id \in DOMAIN notes)
    /\ [][\A p \in Clients :
            (/\ pc[p] # "done" /\ pc'[p] = "done"
             /\ req'[p].kind = "create_reply"
             /\ req'[p].note_id \notin DOMAIN notes) =>
                /\ notes' = notes
                /\ (session[p] # 0 /\ ValidContent(req'[p].content)) =>
                        result'[p] = "NotFound"
        ]_vars

\* A reply to a missing note was refused while another note exists.
C10_Witness ==
    \E p \in Clients :
        /\ pc[p] = "done" /\ req[p].kind = "create_reply"
        /\ result[p] = "NotFound"
        /\ req[p].note_id \notin DOMAIN notes
        /\ notes # <<>>

\* The notes GET /notes shows: the top-level notes and their replies.
ListedNotes == TopLevelRows \cup UNION {ReplyRows(n) : n \in TopLevelRows}

\* C11 as stated: every note with a parent has a top-level note as its parent,
\* and every stored note is among the top-level notes or the replies of one.
C11_RepliesNotNested ==
    /\ \A i \in DOMAIN notes :
          notes[i].parent_note_id # 0 =>
              /\ notes[i].parent_note_id \in DOMAIN notes
              /\ notes[notes[i].parent_note_id].parent_note_id = 0
    /\ DOMAIN notes \subseteq ListedNotes

\* C12 as stated: the replies of a note are listed in one determined order of
\* ascending created_at: exactly the notes whose parent it is, no two of them
\* tied.
C12_RepliesOrderDetermined ==
    \A n \in DOMAIN notes :
        /\ \A sq \in ListReplies(n) :
              {sq[k] : k \in DOMAIN sq} = {i \in DOMAIN notes : notes[i].parent_note_id = n}
        /\ Cardinality(ListReplies(n)) = 1

\* C13 as stated: every note's user_id and every reaction's user_id is the id
\* of a user.
C13_ReferencesExist ==
    /\ \A i \in DOMAIN notes : notes[i].user_id \in DOMAIN users
    /\ \A t \in BagToSet(reactions) : t.user_id \in DOMAIN users

\* C14: an admin page, promote or delete request of a logged-in client gets
\* past admin_required exactly when the row its session names is stored with
\* is_admin 1 or 2 at that moment: a client whose user has been demoted to 0
\* or deleted is refused as Forbidden, with the users table unchanged, though
\* its session is still valid.
C14_GateReadsStoredRole ==
    [][\A p \in Clients :
          (/\ pc[p] = "idle" /\ pc'[p] # "idle"
           /\ req'[p].kind \in {"admin_page", "promote", "delete"}
           /\ session[p] # 0) =>
              IF session[p] \in DOMAIN users /\ users[session[p]].is_admin \in {1, 2}
              THEN pc'[p] # "done"
              ELSE /\ pc'[p] = "done"
                   /\ result'[p] = "Forbidden"
                   /\ users' = users
      ]_vars

\* A client whose user was deleted after it logged in asked for the admin page
\* and was refused.
C14_Witness ==
    \E p \in Clients :
        /\ pc[p] = "done" /\ req[p].kind = "admin_page"
        /\ result[p] = "Forbidden"
        /\ session[p] # 0
        /\ session[p] \notin DOMAIN users

\* With ADMIN_USER configured, some user passes the superadmin designation check.
Designated ==
    /\ adminEnv # ""
    /\ \E i \in DOMAIN users : users[i].is_admin = 2 /\ users[i].username = adminEnv

\* The designated superadmin's own profile update to another username is applied.
RenamesItself(p) ==
    /\ pc[p] = "profile_update" /\ pc'[p] = "done"
    /\ result'[p] = "Ok"
    /\ IsSuperadmin(session[p])
    /\ req[p].username # adminEnv

\* C15 as stated: while ADMIN_USER stays configured, no step takes the
\* designation away: once a user passes the check, one still does.
C15_DesignationKept ==
    [][(Designated /\ adminEnv' = adminEnv) => Designated']_vars

\* C15 as amended: while ADMIN_USER stays configured, the designation is taken
\* away by no step other than the designated superadmin's own profile update
\* to another username, and by that one it is.
C15_DesignationKeptUnlessRenamed ==
    [][(Designated /\ adminEnv' = adminEnv) =>
          IF \E p \in Clients : RenamesItself(p)
          THEN ~Designated'
          ELSE Designated'
      ]_vars

\* The designated superadmin has updated its profile under its own name and
\* still passes the check.
C15_Witness ==
    \E p \in Clients :
        /\ pc[p] = "done" /\ req[p].kind = "profile" /\ result[p] = "Ok"
        /\ adminEnv # ""
        /\ IsSuperadmin(session[p])
        /\ req[p].username = adminEnv
        /\ req[p].password # ""

====
